---- MODULE Spec2Model ----
(***************************************************************************)
(* A model of smart_attendance: the CSV attendance ledger and its queries  *)
(* (utils/attendance_utils.py, page_modules/view_records.py), the encoding *)
(* store and the matcher (utils/face_utils.py,                             *)
(* page_modules/manage_students.py) and the Mark Attendance page           *)
(* (page_modules/mark_attendance.py).                                      *)
(*                                                                         *)
(* Representation.                                                         *)
(*  - A Python str is a sequence of one-character strings, so that strip,  *)
(*    lower, title, split and splitext are computed character by           *)
(*    character as CPython computes them.                                  *)
(*  - The wall clock is a tick counter; a tick t lies on day DayOf(t) at   *)
(*    time-of-day TimeOf(t).  strftime("%Y-%m-%d") and                     *)
(*    strftime("%H:%M:%S") are zero padded, hence injective and order      *)
(*    preserving, so a formatted date (time) is represented by its day     *)
(*    (time-of-day) number and string comparison by integer comparison.    *)
(*  - The ledger file is the sequence of its data rows; csv.writer and     *)
(*    csv.DictReader (newline="") round-trip every field value.            *)
(*    pandas.read_csv reads an empty Name field as the missing value NaN   *)
(*    and to_csv writes NaN back as the empty field (read_csv, to_csv);    *)
(*    the other field values of this model are read as they are written.   *)
(*  - A face descriptor is a one-component vector; the integer a stands    *)
(*    for the float64 nearest a / DistScale.  Distances and confidences    *)
(*    are computed in float64 as numpy computes them (Nearest).            *)
(*  - ENCODINGS_FILE is represented by the database pickle.load returns    *)
(*    from it; pickle round-trips a dict of lists in insertion order.      *)
(***************************************************************************)
EXTENDS Integers, Sequences, FiniteSets, TLC

VARIABLES
    clock,       \* the wall clock, in ticks
    csvExists,   \* os.path.exists(CSV_PATH)
    ledger,      \* the data rows of CSV_PATH, in file order
    markResult,  \* what the last ledger operation returned
    report,      \* what the ledger query that has just returned, returned
    student_dir, \* the files of STUDENT_DIR
    encExists,   \* os.path.exists(ENCODINGS_FILE)
    encFile,     \* the database pickled in ENCODINGS_FILE
    encResult,   \* what the last encoding-store operation returned
    lib,         \* FACE_LIB_AVAILABLE
    rq,          \* the arguments of a recognize_faces call
    faces        \* what recognize_faces returned

vars == <<clock, csvExists, ledger, markResult, report, student_dir,
          encExists, encFile, encResult, lib, rq, faces>>

ledgerVars == <<clock, csvExists, ledger, markResult, report>>
encVars    == <<student_dir, encExists, encFile, encResult, lib>>
recogVars  == <<rq, faces>>

-----------------------------------------------------------------------------
(* Bounds *)

MaxTick     == 3   \* the clock runs from tick 0 to tick MaxTick
TicksPerDay == 2   \* clock ticks per day
MaxLedger   == 3   \* mark is not issued on a ledger of this many rows

-----------------------------------------------------------------------------
(* Python str operations, on sequences of characters *)

\* A character is a one-character string of code point 0 to 255 (the range
\* a string of this module can hold).  The two characters beyond that range
\* which str.title() produces from it are named by their code points.

\* the capitals with a one-character lower case, and that lower case at the
\* same index: A-Z and the Latin-1 capitals
UpperChars == <<"A","B","C","D","E","F","G","H","I","J","K","L","M",
                "N","O","P","Q","R","S","T","U","V","W","X","Y","Z",
                "À","Á","Â","Ã","Ä","Å","Æ","Ç","È","É","Ê","Ë","Ì",
                "Í","Î","Ï","Ð","Ñ","Ò","Ó","Ô","Õ","Ö","Ø","Ù","Ú",
                "Û","Ü","Ý","Þ">>
LowerChars == <<"a","b","c","d","e","f","g","h","i","j","k","l","m",
                "n","o","p","q","r","s","t","u","v","w","x","y","z",
                "à","á","â","ã","ä","å","æ","ç","è","é","ê","ë","ì",
                "í","î","ï","ð","ñ","ò","ó","ô","õ","ö","ø","ù","ú",
                "û","ü","ý","þ">>

\* the lower-case letters that are the lower case of no character of the
\* range
LowerOnly == {"ª", "µ", "º", "ß", "ÿ"}

\* str.isupper(), str.islower() of one character
IsUpper(c) == \E i \in DOMAIN UpperChars : UpperChars[i] = c
IsLower(c) == (\E i \in DOMAIN LowerChars : LowerChars[i] = c) \/ c \in LowerOnly
IsCased(c) == IsUpper(c) \/ IsLower(c)

\* str.lower() of one character
LowerChar(c) ==
    IF IsUpper(c)
    THEN LowerChars[CHOOSE i \in DOMAIN UpperChars : UpperChars[i] = c]
    ELSE c

\* str.title() of one character, as a string: the title case of sharp s
\* is the two characters Ss, that of the micro sign and of y with diaeresis
\* lies beyond the range (GREEK CAPITAL LETTER MU, LATIN CAPITAL LETTER Y
\* WITH DIAERESIS), and the ordinal indicators have none
UpperChar(c) ==
    IF c = "ß" THEN "Ss"
    ELSE IF c = "µ" THEN "U+039C"
    ELSE IF c = "ÿ" THEN "U+0178"
    ELSE IF \E i \in DOMAIN LowerChars : LowerChars[i] = c
    THEN UpperChars[CHOOSE i \in DOMAIN LowerChars : LowerChars[i] = c]
    ELSE c

\* the characters of UpperChar(c)
TitleChars(c) == IF c = "ß" THEN <<"S", "s">> ELSE <<UpperChar(c)>>

\* str.lower()
Lower(s) == [i \in DOMAIN s |-> LowerChar(s[i])]

\* str.isspace() of one character: space, \t, \n, \r, \f, and (written
\* as the characters themselves) \x0b, \x1c, \x1d, \x1e, \x1f, \x85, \xa0
IsSpace(c) ==
    c \in {" ", "\t", "\n", "\r", "\f",
           "", "", "", "", "", "", " "}

\* str.strip(): drop leading and trailing whitespace
RECURSIVE LStrip(_)
LStrip(s) == IF s # <<>> /\ IsSpace(Head(s)) THEN LStrip(Tail(s)) ELSE s

RECURSIVE RStrip(_)
RStrip(s) ==
    IF s # <<>> /\ IsSpace(s[Len(s)]) THEN RStrip(SubSeq(s, 1, Len(s) - 1)) ELSE s

Strip(s) == RStrip(LStrip(s))

\* str.title(): a cased character is upper-cased when it follows an uncased
\* one (or starts the string) and lower-cased otherwise
RECURSIVE TitleFrom(_, _)
TitleFrom(s, i) ==
    IF i > Len(s) THEN <<>>
    ELSE (IF i = 1 \/ ~IsCased(s[i - 1])
          THEN TitleChars(s[i]) ELSE <<LowerChar(s[i])>>) \o TitleFrom(s, i + 1)

Title(s) == TitleFrom(s, 1)

\* str.replace(old, new) for one-character old and new
Replace(s, old, new) == [i \in DOMAIN s |-> IF s[i] = old THEN new ELSE s[i]]

\* str.split(sep)[0]: the part before the first sep
RECURSIVE SplitFirst(_, _)
SplitFirst(s, sep) ==
    IF s = <<>> \/ Head(s) = sep THEN <<>>
    ELSE <<Head(s)>> \o SplitFirst(Tail(s), sep)

UNKNOWN == <<"u","n","k","n","o","w","n">>

-----------------------------------------------------------------------------
(* The clock *)

DayOf(t)  == t \div TicksPerDay
TimeOf(t) == t % TicksPerDay

\* date.today().strftime("%Y-%m-%d") read at tick t
TodayStr(t) == DayOf(t)

\* datetime.now().strftime("%H:%M:%S") read at tick t
NowTimeStr(t) == TimeOf(t)

-----------------------------------------------------------------------------
(* utils/attendance_utils.py *)

PRESENT == "Present"

Row(name, d, tm) == [Name |-> name, Date |-> d, Time |-> tm, Status |-> PRESENT]

\* get_today_marked, with date.today() read at tick t
get_today_marked_any_date(rows, t) == {rows[i].Name : i \in DOMAIN rows}
get_today_marked(rows, t) ==
    {rows[i].Name : i \in {j \in DOMAIN rows : rows[j].Date = TodayStr(t)}}

\* the guard of mark_attendance that rejects an unrecognised face
IsUnrecognisedCaseSensitive(name) == name = <<>> \/ Strip(name) = UNKNOWN
IsUnrecognised(name) == name = <<>> \/ Lower(Strip(name)) = UNKNOWN

\* writer.writerow on the file opened in append mode
AppendRowFront(rows, r) == <<r>> \o rows
AppendRow(rows, r) == Append(rows, r)

\* the ticks at which the clock can be read next after a read at tick t
ReadAfter(t) == {u \in {t, t + 1} : u <= MaxTick}

NoResult == [op |-> "none", arg |-> <<>>, ok |-> FALSE, reason |-> "none",
             name |-> <<>>, today |-> 0, time |-> 0, checked |-> 0]

\* what a ledger query leaves in report: the query, its filter_date, and
\* the rows, the names or the counts it returned; an operation that is not
\* a query leaves NoReport
NoStats == [total_records |-> 0, unique_students |-> 0, unique_dates |-> 0,
            today_count |-> 0]

NoReport == [op |-> "none", filter |-> 0, rows |-> <<>>, names |-> {},
             stats |-> NoStats]

\* mark_attendance(name) called at tick t on a ledger of the given rows: the
\* results it can return, each with the rows it leaves and the tick of its
\* last clock read.  The call reads the clock three times: t1 is
\* date.today() of mark_attendance, t2 its datetime.now(), t3 the
\* date.today() of the get_today_marked it calls.  The clock may advance
\* between two reads (by at most one tick: a call is short); time before
\* the call passes by Tick.
MarkCall(name, rows, t) ==
    IF IsUnrecognised(name)
    THEN {[res |-> [NoResult EXCEPT !.op = "mark", !.arg = name,
                                    !.reason = "unrecognised"],
           rows |-> rows, clock |-> t]}
    ELSE UNION {{
        LET t1 == t
            n == Strip(name)
            res == [op |-> "mark", arg |-> name, ok |-> FALSE,
                    reason |-> "already", name |-> n,
                    today |-> TodayStr(t1), time |-> NowTimeStr(t2),
                    checked |-> TodayStr(t3)]
        IN IF n \in get_today_marked(rows, t3)
           THEN [res |-> res, rows |-> rows, clock |-> t3]
           ELSE [res |-> [res EXCEPT !.ok = TRUE, !.reason = "marked"],
                 rows |-> AppendRow(rows, Row(n, TodayStr(t1), NowTimeStr(t2))),
                 clock |-> t3]
        : t3 \in ReadAfter(t2)} : t2 \in ReadAfter(t)}

\* one call of mark_attendance(name)
Mark(name) ==
    /\ Len(ledger) < MaxLedger
    /\ csvExists' = TRUE
    /\ report' = NoReport
    /\ UNCHANGED <<encVars, recogVars>>
    /\ \E o \in MarkCall(name, ledger, clock) :
        /\ markResult' = o.res
        /\ ledger' = o.rows
        /\ clock' = o.clock

\* (Date, Time) descending: r sorts strictly before q
SortsBefore(r, q) ==
    r.Date > q.Date \/ (r.Date = q.Date /\ r.Time > q.Time)

\* df.sort_values(["Date","Time"], ascending=[False, False]): a stable sort
RECURSIVE SortDesc(_)
SortDesc(rows) ==
    IF rows = <<>> THEN <<>>
    ELSE LET front == SortDesc(SubSeq(rows, 1, Len(rows) - 1))
             x     == rows[Len(rows)]
             k     == Cardinality({i \in DOMAIN front : ~SortsBefore(x, front[i])})
         IN SubSeq(front, 1, k) \o <<x>> \o SubSeq(front, k + 1, Len(front))

NoFilter == -1   \* filter_date=None

\* the missing value (NaN) pandas holds in place of an empty field
NAN == <<"NaN">>

\* pd.read_csv(CSV_PATH): the data frame of the rows; an empty Name field is
\* read as NaN, every other field of the model as the string it is
read_csv(rows) ==
    [i \in DOMAIN rows |->
        [rows[i] EXCEPT !.Name = IF @ = <<>> THEN NAN ELSE @]]

\* df.to_csv(CSV_PATH, index=False): the rows written; NaN is written as
\* the empty field
to_csv(df) ==
    [i \in DOMAIN df |->
        [df[i] EXCEPT !.Name = IF @ = NAN THEN <<>> ELSE @]]

\* load_attendance(filter_date)
load_attendance(rows, filter_date) ==
    LET df == read_csv(rows)
    IN IF df = <<>> THEN <<>>
       ELSE SortDesc(IF filter_date # NoFilter
                     THEN SelectSeq(df, LAMBDA r : r.Date = filter_date)
                     ELSE df)

\* df["Name"].nunique() over the values vals of the column: NaN is not
\* counted (the Date column of the model holds no missing value, and its
\* nunique() is the number of its values)
nunique(vals) == Cardinality(vals \ {NAN})

\* get_stats(), with date.today() read at tick t
get_stats(rows, t) ==
    LET df        == load_attendance(rows, NoFilter)
        today_str == TodayStr(t)
        today_df  == SelectSeq(df, LAMBDA r : r.Date = today_str)
    IN [total_records   |-> Len(df),
        unique_students |-> nunique({df[i].Name : i \in DOMAIN df}),
        unique_dates    |-> Cardinality({df[i].Date : i \in DOMAIN df}),
        today_count     |-> Len(today_df)]

\* sorted(df["Name"].unique().tolist()) raises TypeError: the names hold
\* NaN, a float, along with a str, and Python does not order the two
SortedNamesRaises(df) ==
    /\ \E i \in DOMAIN df : df[i].Name = NAN
    /\ \E i \in DOMAIN df : df[i].Name # NAN

\* view_records.render with the "Clear Today's Records" button pressed:
\* the page loads the ledger, returns early when it is empty, raises while
\* it builds the student filter when the names cannot be sorted (the button
\* is then never reached and nothing is written), and otherwise rewrites
\* the file with the loaded rows not dated today.
ClearToday ==
    /\ ledger # <<>>
    /\ ~SortedNamesRaises(load_attendance(ledger, NoFilter))
    /\ LET df_all    == load_attendance(ledger, NoFilter)
           today_str == TodayStr(clock)
       IN /\ ledger' = to_csv(SelectSeq(df_all, LAMBDA r : r.Date # today_str))
          /\ markResult' = [NoResult EXCEPT !.op = "clear", !.today = today_str]
    /\ report' = NoReport
    /\ UNCHANGED clock
    /\ csvExists' = TRUE
    /\ UNCHANGED <<encVars, recogVars>>

\* time passes between operations
Tick ==
    /\ clock < MaxTick
    /\ clock' = clock + 1
    /\ report' = NoReport
    /\ UNCHANGED <<csvExists, ledger, markResult, encVars, recogVars>>

-----------------------------------------------------------------------------
(* The arguments mark_attendance is called with *)

NameAlice   == <<"A","l","i","c","e">>
NameBob     == <<"B","o","b">>

MarkArgs ==
    << NameAlice,                                 \* "Alice"
       NameBob,                                   \* "Bob"
       <<" ","A","l","i","c","e"," ">>,           \* " Alice "
       <<>>,                                      \* ""
       <<" "," ">>,                               \* "  "
       <<"U","n","k","n","o","w","n">>,           \* "Unknown"
       <<"u","n","k","n","o","w","n">>,           \* "unknown"
       <<"U","N","K","N","O","W","N">>,           \* "UNKNOWN"
       <<" ","U","n","k","n","o","w","n"," ">> >> \* " Unknown "

MarkInputs == {MarkArgs[i] : i \in DOMAIN MarkArgs}

-----------------------------------------------------------------------------
(* utils/face_utils.py: the encoding store *)

DistScale == 10000   \* fixed-point units per 1.0 of descriptor space

SUPPORTED ==
    { <<".","j","p","g">>, <<".","j","p","e","g">>, <<".","p","n","g">>,
      <<".","b","m","p">>, <<".","w","e","b","p">> }

\* the index of the last "." of s, 0 when there is none
LastDot(s) ==
    LET dots == {i \in DOMAIN s : s[i] = "."}
    IN IF dots = {} THEN 0 ELSE CHOOSE i \in dots : \A j \in dots : j <= i

\* os.path.splitext(fname) of a name without directory part: the extension
\* starts at the last dot, unless only dots precede it
SplitExt(s) ==
    LET d == LastDot(s)
    IN IF d > 0 /\ \E i \in 1 .. d - 1 : s[i] # "."
       THEN <<SubSeq(s, 1, d - 1), SubSeq(s, d, Len(s))>>
       ELSE <<s, <<>>>>

IsSupported(fname) == Lower(SplitExt(fname)[2]) \in SUPPORTED

\* the student name derived from a file name
DerivedName(fname) == Title(Replace(SplitFirst(SplitExt(fname)[1], "_"), "-", " "))

\* The files that can be in STUDENT_DIR, with what face_recognition makes of
\* each: readable is whether load_image_file succeeds, encs what
\* face_encodings returns for the image (one descriptor per face).
Img(fname, readable, encs) ==
    [fname |-> fname, readable |-> readable, encs |-> encs]

FilePool ==
    { Img(<<"A","l","i","c","e","_","0","1",".","j","p","g">>, TRUE, <<3000>>),
      Img(<<"a","l","i","c","e","_","0","2",".","J","P","G">>, TRUE, <<3002>>),
      Img(<<"B","o","b",".","p","n","g">>, TRUE, <<8000>>),
      Img(<<"a","n","n","-","l","e","e","_","1",".","j","p","e","g">>, TRUE,
          <<12000, 100>>),
      Img(<<"C","a","r","l",".","b","m","p">>, TRUE, <<>>),
      Img(<<"B","a","d",".","p","n","g">>, FALSE, <<>>),
      Img(<<"n","o","t","e","s",".","t","x","t">>, FALSE, <<>>) }

MaxFiles == 3   \* no more files than this are in STUDENT_DIR

\* the orders os.listdir can return the files of a directory in
RECURSIVE Listings(_)
Listings(S) ==
    IF S = {} THEN {<<>>}
    ELSE UNION {{<<f>> \o l : l \in Listings(S \ {f})} : f \in S}

\* encodings_db.setdefault(name, []).append(enc) on a dict kept as the
\* sequence of its items in insertion order
SetDefaultAppendReplace(db, name, enc) ==
    IF \E i \in DOMAIN db : db[i].name = name
    THEN [i \in DOMAIN db |->
            IF db[i].name = name THEN [db[i] EXCEPT !.encs = <<enc>>] ELSE db[i]]
    ELSE Append(db, [name |-> name, encs |-> <<enc>>])
SetDefaultAppend(db, name, enc) ==
    IF \E i \in DOMAIN db : db[i].name = name
    THEN [i \in DOMAIN db |->
            IF db[i].name = name
            THEN [db[i] EXCEPT !.encs = Append(@, enc)] ELSE db[i]]
    ELSE Append(db, [name |-> name, encs |-> <<enc>>])

\* what one pass of the loop of encode_faces_from_folder makes of file f
\* before it touches the database: whether the extension is supported, the
\* derived name, whether load_image_file succeeds, what face_encodings returns
Scan(f) ==
    [fname |-> f.fname, supported |-> IsSupported(f.fname),
     name |-> DerivedName(f.fname), readable |-> f.readable, encs |-> f.encs]

\* the loop of encode_faces_from_folder over one listing of scanned files:
\* the database built, or raised when load_image_file fails on a supported
\* file
RECURSIVE EncodeLoop(_, _)
EncodeLoop(listing, db) ==
    IF listing = <<>> THEN [raised |-> FALSE, db |-> db]
    ELSE LET f == Head(listing)
         IN IF ~f.supported THEN EncodeLoop(Tail(listing), db)
            ELSE IF ~f.readable THEN [raised |-> TRUE, db |-> <<>>]
            ELSE IF f.encs # <<>>
                 THEN EncodeLoop(Tail(listing),
                                 SetDefaultAppend(db, f.name, f.encs[1]))
                 ELSE EncodeLoop(Tail(listing), db)

\* what encode_faces_from_folder can do on directory dir: persist says
\* whether pickle.dump is reached
RebuildOutcomes(libOK, dir) ==
    IF ~libOK THEN {[raised |-> FALSE, db |-> <<>>, persist |-> FALSE]}
    ELSE LET scanned == {Scan(f) : f \in dir}
         IN {LET r == EncodeLoop(l, <<>>)
             IN [raised |-> r.raised, db |-> r.db, persist |-> ~r.raised]
             : l \in Listings(scanned)}

\* what an encoding-store operation leaves in encResult: whether it raised,
\* the database it returned, whether it ran the rebuild, whether it changed
\* the photo set, and the operation that came before it
NoEnc == [op |-> "none", raised |-> FALSE, db |-> <<>>, rebuilt |-> FALSE,
          changed |-> FALSE, after |-> "none"]

\* the effect of one encode_faces_from_folder call with outcome r on the
\* pickle file
PersistNothing(r) ==
    UNCHANGED <<encExists, encFile>>
Persist(r) ==
    IF r.persist
    THEN encExists' = TRUE /\ encFile' = r.db
    ELSE UNCHANGED <<encExists, encFile>>

\* encode_faces_from_folder()
Rebuild ==
    /\ \E r \in RebuildOutcomes(lib, student_dir) :
        /\ Persist(r)
        /\ encResult' = [op |-> "rebuild", raised |-> r.raised, db |-> r.db,
                         rebuilt |-> TRUE, changed |-> FALSE, after |-> encResult.op]
    /\ UNCHANGED <<student_dir, lib, ledgerVars, recogVars>>

\* load_encodings()
LoadAlwaysRebuild ==
    /\ \E r \in RebuildOutcomes(lib, student_dir) :
        /\ Persist(r)
        /\ encResult' = [op |-> "load", raised |-> r.raised, db |-> r.db,
                         rebuilt |-> TRUE, changed |-> FALSE, after |-> encResult.op]
    /\ UNCHANGED <<student_dir, lib, ledgerVars, recogVars>>
LoadEncodings ==
    /\ IF encExists
       THEN /\ encResult' = [op |-> "load", raised |-> FALSE, db |-> encFile,
                             rebuilt |-> FALSE, changed |-> FALSE, after |-> encResult.op]
            /\ UNCHANGED <<encExists, encFile>>
       ELSE \E r \in RebuildOutcomes(lib, student_dir) :
            /\ Persist(r)
            /\ encResult' = [op |-> "load", raised |-> r.raised, db |-> r.db,
                             rebuilt |-> TRUE, changed |-> FALSE, after |-> encResult.op]
    /\ UNCHANGED <<student_dir, lib, ledgerVars, recogVars>>

\* _list_students(): the supported files of STUDENT_DIR
ListStudents(dir) == {f \in dir : IsSupported(f.fname)}

\* the files st.file_uploader(type=["jpg", "jpeg", "png", "bmp", "webp"])
\* accepts
Uploadable == {f \in FilePool : IsSupported(f.fname)}

\* manage_students.render with "Save Photos" submitted for the files of
\* batch: a file whose name exists is skipped, the others are written
Upload(batch) ==
    /\ lib
    /\ batch # {}
    /\ batch \subseteq Uploadable
    /\ LET new == {f \in batch : \A g \in student_dir : g.fname # f.fname}
       IN /\ Cardinality(student_dir \cup new) <= MaxFiles
          /\ student_dir' = student_dir \cup new
          /\ encResult' = [NoEnc EXCEPT !.op = "upload", !.changed = new # {},
                                          !.after = encResult.op]
    /\ UNCHANGED <<encExists, encFile, lib, ledgerVars, recogVars>>

\* manage_students.render with "Encode Faces" pressed
EncodeButton ==
    /\ lib
    /\ IF ListStudents(student_dir) = {}
       THEN /\ encResult' = [NoEnc EXCEPT !.op = "encode", !.after = encResult.op]
            /\ UNCHANGED <<encExists, encFile>>
       ELSE \E r \in RebuildOutcomes(lib, student_dir) :
            /\ Persist(r)
            /\ encResult' = [op |-> "encode", raised |-> r.raised, db |-> r.db,
                             rebuilt |-> TRUE, changed |-> FALSE, after |-> encResult.op]
    /\ UNCHANGED <<student_dir, lib, ledgerVars, recogVars>>

\* manage_students.render with the "Delete" button of student file f pressed
DeleteKeepCache(f) ==
    /\ lib
    /\ f \in ListStudents(student_dir)
    /\ student_dir' = student_dir \ {f}
    /\ UNCHANGED <<encExists, encFile>>
    /\ encResult' = [NoEnc EXCEPT !.op = "delete", !.changed = TRUE,
                                   !.after = encResult.op]
    /\ UNCHANGED <<lib, ledgerVars, recogVars>>
Delete(f) ==
    /\ lib
    /\ f \in ListStudents(student_dir)
    /\ student_dir' = student_dir \ {f}
    /\ encExists' = FALSE
    /\ encFile' = <<>>
    /\ encResult' = [NoEnc EXCEPT !.op = "delete", !.changed = TRUE,
                                   !.after = encResult.op]
    /\ UNCHANGED <<lib, ledgerVars, recogVars>>

-----------------------------------------------------------------------------
(* utils/face_utils.py: the matcher *)

Abs(x) == IF x < 0 THEN -x ELSE x

\* float64 arithmetic.  The matcher computes in IEEE 754 binary64 with
\* round-to-nearest, ties to even.  A double x is held exactly, as the
\* record [g, e, t] with
\*     x = g / DistScale + e * 2^t / DistScale
\* g the decimal value the computation aims at, in units of 1 / DistScale,
\* and e * 2^t / DistScale the rounding error x carries (t < 0; g and e are
\* 0 for the double 0.0, and g <= 0, e of either sign for a negative one).
\* Every operation below rounds its exact result as the hardware does, by
\* integer arithmetic modulo DistScale.
Float(g, e, t) == [g |-> g, e |-> e, t |-> t]

FZero == Float(0, 0, 0)

FNeg(x) == Float(-x.g, -x.e, x.t)

\* 2^n modulo m
RECURSIVE Pow2Mod(_, _)
Pow2Mod(n, m) == IF n = 0 THEN 1 % m ELSE (2 * Pow2Mod(n - 1, m)) % m

\* floor(log2(G / DistScale)), for G >= 1
Binade(G) ==
    IF G < DistScale
    THEN CHOOSE p \in -14 .. -1 :
            DistScale <= G * 2^(-p) /\ G * 2^(-p) < 2 * DistScale
    ELSE CHOOSE p \in 0 .. 11 :
            DistScale * 2^p <= G /\ G < DistScale * 2^(p + 1)

\* G / DistScale = 2^p
IsPow2(G, p) == IF p < 0 THEN G * 2^(-p) = DistScale ELSE G = DistScale * 2^p

\* The double nearest the positive real G / DistScale + m * e * 2^q0 /
\* DistScale (G >= 1, the second term far below 1 / DistScale).  With t the
\* exponent of the last place of the result, the real is N / (DistScale *
\* 2^-t) for N = G * 2^-t + m * e * 2^(q0 - t), and the result is the
\* multiple of DistScale nearest N, the even multiple at a tie.  N is split
\* as (G * 2^-t * Sc + mu * e) / Sc with Sc = 2^(t - q0), mu = m when t >
\* q0 and Sc = 1, mu = m * 2^(q0 - t) otherwise; R is the remainder of its
\* numerator modulo M = DistScale * Sc, and a + b = mu * e.

\* the exponent of the last place, p0 being the binade of G / DistScale
LastPlace(G, e, p0) == (IF IsPow2(G, p0) /\ e < 0 THEN p0 - 1 ELSE p0) - 52

\* the remainder R
Remainder(G, e, t, Sc, mu) ==
    ( (((G % DistScale) * Pow2Mod(-t, DistScale)) % DistScale) * Sc
      + (((e % (DistScale * Sc)) * mu) % (DistScale * Sc)) ) % (DistScale * Sc)

\* the multiple of DistScale below N is an odd one
OddBelow(G, t, Sc, a, b, R) ==
    ( (((G % (2 * DistScale)) * Pow2Mod(-t, 2 * DistScale)) % (2 * DistScale))
      + a + ((b - R) \div Sc) ) % (2 * DistScale) = DistScale

Rounded(G, t, Sc, M, a, b, R) ==
    Float(G,
          a + ((b - R + (IF 2 * R > M \/ (2 * R = M /\ OddBelow(G, t, Sc, a, b, R))
                         THEN M ELSE 0)) \div Sc),
          t)

Scaled(G, e, t, Sc, mu) ==
    Rounded(G, t, Sc, DistScale * Sc, mu * (e \div Sc), mu * (e % Sc),
            Remainder(G, e, t, Sc, mu))

NearestAt(G, e, q0, m, t) ==
    Scaled(G, e, t,
           IF e # 0 /\ t > q0 THEN 2^(t - q0) ELSE 1,
           IF e # 0 /\ q0 > t THEN m * 2^(q0 - t) ELSE m)

Nearest(G, e, q0, m) == NearestAt(G, e, q0, m, LastPlace(G, e, Binade(G)))

\* x, negated when s < 0
WithSign(s, x) == IF s < 0 THEN FNeg(x) ELSE x

\* the double a descriptor component or a tolerance a / DistScale is
FromDecimal(a) ==
    IF a = 0 THEN FZero ELSE WithSign(a, Nearest(Abs(a), 0, 0, 1))

\* x <= y and x < y, of doubles
FLe(x, y) ==
    IF x.g # y.g THEN x.g < y.g
    ELSE IF x.t < y.t THEN x.e <= y.e * 2^(y.t - x.t)
    ELSE x.e * 2^(x.t - y.t) <= y.e

FLt(x, y) == ~FLe(y, x)

\* the exact difference G / DistScale + E * 2^q / DistScale of two doubles,
\* rounded, in absolute value
AbsRounded(G, E, q) ==
    IF G = 0 THEN (IF E = 0 THEN FZero ELSE Float(0, Abs(E), q))
    ELSE Nearest(Abs(G), IF G > 0 THEN E ELSE -E, q, 1)

\* np.linalg.norm of the difference x - y of two one-component vectors:
\* sqrt((x - y)^2), which in binary64 is |x - y| rounded once
FAbsDiff(x, y) ==
    IF x = FZero THEN WithSign(y.g, y)
    ELSE IF y = FZero THEN WithSign(x.g, x)
    ELSE IF x.t < y.t
         THEN AbsRounded(x.g - y.g, x.e - y.e * 2^(y.t - x.t), x.t)
         ELSE AbsRounded(x.g - y.g, x.e * 2^(x.t - y.t) - y.e, y.t)

\* 1 - d, of a double d >= 0
FOneMinus(d) ==
    IF d.g = DistScale THEN Float(0, -d.e, d.t)
    ELSE WithSign(DistScale - d.g,
                  Nearest(Abs(DistScale - d.g),
                          IF d.g < DistScale THEN -d.e ELSE d.e, d.t, 1))

\* x * m for m = 10 or 100.  A product with g = 0 is below 2^-40 in
\* magnitude; it is kept unrounded, its only use being Rint.
FTimes(x, m) ==
    IF x.g = 0 THEN Float(0, x.e * m, x.t)
    ELSE WithSign(x.g, Nearest(Abs(x.g) * m,
                               IF x.g > 0 THEN x.e ELSE -x.e, x.t, m))

\* the integer nearest the double n + f / DistScale + (an error of the sign
\* of e), for 0 <= f < DistScale: the even one at a tie
RintOf(n, f, e) ==
    IF 2 * f > DistScale \/ (2 * f = DistScale /\ e > 0) THEN n + 1
    ELSE IF 2 * f = DistScale /\ e = 0 /\ n % 2 = 1 THEN n + 1
    ELSE n

\* np.rint(x)
Rint(x) ==
    IF x.g < 0
    THEN -RintOf((-x.g) \div DistScale, (-x.g) % DistScale, -x.e)
    ELSE RintOf(x.g \div DistScale, x.g % DistScale, x.e)

\* face_recognition.face_distance(all_encs, enc): the float64 distances
\* |x - enc| of the descriptors x of all_encs, descriptors given in units of
\* 1 / DistScale.  A distance is held as [g, x, y], the decimals x and y it
\* is the distance of and g = |x - y|; the double it is, g / DistScale and
\* a rounding error, is DoubleOf.  The rounding errors of this model's
\* doubles are below 10^-12, so that whatever the decimal values decide
\* (which of two distances of different g is smaller, the tenth nearest a
\* percentage that is not halfway between two) is decided from them, and
\* the double is computed where the decimal values leave the outcome open.
face_distance(all_encs, enc) ==
    [i \in DOMAIN all_encs |->
        [g |-> Abs(all_encs[i] - enc), x |-> all_encs[i], y |-> enc]]

DoubleOf(d) == FAbsDiff(FromDecimal(d.x), FromDecimal(d.y))

\* d1 <= d2, of two distances
DistLe(d1, d2) ==
    IF d1.g # d2.g THEN d1.g < d2.g
    ELSE d1 = d2 \/ FLe(DoubleOf(d1), DoubleOf(d2))

\* d <= tolerance, the tolerance given in units of 1 / DistScale
WithinTolerance(d, tolerance) ==
    IF d.g # tolerance THEN d.g < tolerance
    ELSE FLe(DoubleOf(d), FromDecimal(tolerance))

\* [enc for encs in encodings_db.values() for enc in encs]
RECURSIVE FlatEncs(_)
FlatEncs(db) == IF db = <<>> THEN <<>> ELSE Head(db).encs \o FlatEncs(Tail(db))

\* [name for name, encs in encodings_db.items() for _ in encs]
RECURSIVE FlatNames(_)
FlatNames(db) ==
    IF db = <<>> THEN <<>>
    ELSE [i \in DOMAIN Head(db).encs |-> Head(db).name] \o FlatNames(Tail(db))

\* int(np.argmin(distances)) if len(distances) else -1, indices from 1 (0
\* for none): the first index holding the minimum
ArgMinLast(d) ==
    IF d = <<>> THEN 0
    ELSE CHOOSE i \in DOMAIN d :
            /\ \A j \in DOMAIN d : DistLe(d[i], d[j])
            /\ \A j \in DOMAIN d : DistLe(d[j], d[i]) => j <= i
ArgMin(d) ==
    IF d = <<>> THEN 0
    ELSE CHOOSE i \in DOMAIN d :
            /\ \A j \in DOMAIN d : DistLe(d[i], d[j])
            /\ \A j \in DOMAIN d : DistLe(d[j], d[i]) => i <= j

\* round((1 - x) * 100, 1) of a double x, in tenths of a percent: numpy
\* rounds to one decimal as rint(((1 - x) * 100) * 10) / 10
RoundedPercent(x) == Rint(FTimes(FTimes(FOneMinus(x), 100), 10))

\* round((1 - distance) * 100, 1) of a distance d, in tenths of a percent:
\* the integer nearest (1 - g / DistScale) * 1000 where that is not halfway
\* between two integers, and what the double of d gives where it is
Confidence(d) ==
    LET num == (DistScale - d.g) * 1000
    IN IF 2 * (num % DistScale) # DistScale
       THEN (2 * num + DistScale) \div (2 * DistScale)
       ELSE RoundedPercent(DoubleOf(d))

NameUnknown == <<"U","n","k","n","o","w","n">>

\* the body of the loop of recognize_faces for one detected face
MatchOne(db, enc, loc, tolerance) ==
    LET distances == face_distance(FlatEncs(db), enc)
        best_idx  == ArgMin(distances)
    IN IF best_idx >= 1 /\ WithinTolerance(distances[best_idx], tolerance)
       THEN [name |-> FlatNames(db)[best_idx],
             confidence |-> Confidence(distances[best_idx]),
             loc |-> [k \in DOMAIN loc |-> loc[k] * 4]]
       ELSE [name |-> NameUnknown, confidence |-> 0,
             loc |-> [k \in DOMAIN loc |-> loc[k] * 4]]

\* recognize_faces(frame, encodings_db, tolerance), the frame given by the
\* descriptors and locations face_recognition detects in it
recognize_faces_any_db(libOK, encodings, locations, db, tolerance) ==
    IF ~libOK THEN <<>>
    ELSE [i \in DOMAIN encodings |->
            MatchOne(db, encodings[i], locations[i], tolerance)]
recognize_faces(libOK, encodings, locations, db, tolerance) ==
    IF ~libOK \/ db = <<>> THEN <<>>
    ELSE [i \in DOMAIN encodings |->
            MatchOne(db, encodings[i], locations[i], tolerance)]

MaxFaces == 2   \* a captured photo holds at most this many faces

DEFAULT_TOLERANCE == 5000   \* tolerance: float = 0.5

\* the tolerances recognize_faces is called with
Tolerances == {DEFAULT_TOLERANCE, 6000, 15000}

\* the descriptors detected in captured photos
QueryEncs == {0, 3015, 6000, 6007, 8000, 9000, 11000, 15000}

\* the databases recognize_faces is called with
RecogDBs ==
    { <<>>,
      <<[name |-> NameAlice, encs |-> <<3000>>]>>,
      <<[name |-> NameAlice, encs |-> <<3000>>],
        [name |-> NameBob, encs |-> <<3000>>]>>,
      <<[name |-> NameBob, encs |-> <<6000, 9000>>],
        [name |-> NameAlice, encs |-> <<3000>>]>>,
      <<[name |-> NameBob, encs |-> <<>>]>>,
      <<[name |-> NameBob, encs |-> <<>>],
        [name |-> NameAlice, encs |-> <<3000>>]>>,
      <<[name |-> NameBob, encs |-> <<9000>>],
        [name |-> NameAlice, encs |-> <<3000>>]>> }

\* face_locations of the i-th detected face, (top, right, bottom, left) in
\* the downscaled frame
LocationOf(i) == <<10 * i, 10 * i + 5, 10 * i + 5, 10 * i>>

RecogInputs ==
    { [libOK |-> l, db |-> db, encodings |-> e,
       locations |-> [i \in DOMAIN e |-> LocationOf(i)],
       tolerance |-> tol, called |-> FALSE] :
        l \in BOOLEAN, db \in RecogDBs, tol \in Tolerances,
        e \in UNION {[1 .. n -> QueryEncs] : n \in 0 .. MaxFaces} }

\* one call of recognize_faces
Recognize ==
    /\ ~rq.called
    /\ rq' = [rq EXCEPT !.called = TRUE]
    /\ faces' = recognize_faces(rq.libOK, rq.encodings, rq.locations, rq.db,
                                rq.tolerance)
    /\ UNCHANGED <<ledgerVars, encVars>>

-----------------------------------------------------------------------------
(* Specifications *)

NoQuery == [libOK |-> FALSE, db |-> <<>>, encodings |-> <<>>,
            locations |-> <<>>, tolerance |-> DEFAULT_TOLERANCE,
            called |-> TRUE]

InitLedgerPart ==
    /\ clock = 0
    /\ csvExists \in BOOLEAN
    /\ ledger = <<>>
    /\ markResult = NoResult
    /\ report = NoReport

InitEncPart ==
    /\ student_dir \in {{}, {f \in FilePool : ~IsSupported(f.fname)}}
    /\ encExists = FALSE
    /\ encFile = <<>>
    /\ encResult = NoEnc
    /\ lib \in BOOLEAN

\* the attendance ledger: mark_attendance, clear today, the clock
InitLedger ==
    /\ InitLedgerPart
    /\ student_dir = {} /\ encExists = FALSE /\ encFile = <<>>
    /\ encResult = NoEnc /\ lib = TRUE
    /\ rq = NoQuery /\ faces = <<>>

NextLedger ==
    \/ \E i \in DOMAIN MarkArgs : Mark(MarkArgs[i])
    \/ ClearToday
    \/ Tick

SpecLedger == InitLedger /\ [][NextLedger]_vars

\* the encoding store: rebuild, load, and the Manage Students page
InitEnc ==
    /\ InitEncPart
    /\ clock = 0 /\ csvExists = FALSE /\ ledger = <<>> /\ markResult = NoResult
    /\ report = NoReport
    /\ rq = NoQuery /\ faces = <<>>

NextEnc ==
    \/ Rebuild
    \/ LoadEncodings
    \/ \E batch \in SUBSET Uploadable : Upload(batch)
    \/ EncodeButton
    \/ \E f \in FilePool : Delete(f)

SpecEnc == InitEnc /\ [][NextEnc]_vars

\* the matcher: recognize_faces on each of its inputs
InitRecog ==
    /\ rq \in RecogInputs /\ faces = <<>>
    /\ clock = 0 /\ csvExists = FALSE /\ ledger = <<>> /\ markResult = NoResult
    /\ report = NoReport
    /\ student_dir = {} /\ encExists = FALSE /\ encFile = <<>>
    /\ encResult = NoEnc /\ lib = TRUE

NextRecog == Recognize

SpecRecog == InitRecog /\ [][NextRecog]_vars

-----------------------------------------------------------------------------
(* Properties of the attendance ledger *)

\* rows holds a record of name on date d
HasRecord(rows, name, d) ==
    \E i \in DOMAIN rows : rows[i].Name = name /\ rows[i].Date = d

\* a mark_attendance(n) step all of whose clock reads fall on one date
MarkOnOneDate(n) ==
    /\ Mark(n)
    /\ markResult'.today = markResult'.checked
    /\ DayOf(clock) = markResult'.today

\* C1: the ledger holds at most one record for each (name, date) pair.
C1_OneRecordPerNameDate ==
    \A i, j \in DOMAIN ledger :
        (ledger[i].Name = ledger[j].Name /\ ledger[i].Date = ledger[j].Date)
            => i = j

\* a name the claim C2 calls valid: non-empty and not the unknown sentinel
ValidAsClaimed(n) == n # <<>> /\ Lower(n) # UNKNOWN

\* C2, as claimed: for a non-empty name n other than the sentinel, a
\* mark(n) on date d with no record of n on d succeeds and leaves n in
\* today_marked(), and the mark(n) that follows a successful mark(n) on the
\* same date is rejected as already recorded and adds no record.
C2_MarkTwiceAsClaimed ==
    [][\A n \in MarkInputs :
        (MarkOnOneDate(n) /\ ValidAsClaimed(n)) =>
            /\ ~HasRecord(ledger, n, markResult'.today) =>
                 /\ markResult'.ok
                 /\ n \in get_today_marked(ledger', clock')
            /\ (markResult.op = "mark" /\ markResult.ok /\ markResult.arg = n
                  /\ markResult.today = markResult'.today) =>
                 /\ ~markResult'.ok
                 /\ markResult'.reason = "already"
                 /\ ledger' = ledger]_vars

\* C2, amended: the same for every name n whose stripped form is neither
\* empty-argument nor the sentinel in any letter case, with strip(n) in
\* place of n in the ledger and in today_marked().
C2_MarkTwice ==
    [][\A n \in MarkInputs :
        (MarkOnOneDate(n) /\ n # <<>> /\ Lower(Strip(n)) # UNKNOWN) =>
            /\ ~HasRecord(ledger, Strip(n), markResult'.today) =>
                 /\ markResult'.ok
                 /\ markResult'.reason = "marked"
                 /\ Strip(n) \in get_today_marked(ledger', clock')
            /\ (markResult.op = "mark" /\ markResult.ok /\ markResult.arg = n
                  /\ markResult.today = markResult'.today) =>
                 /\ ~markResult'.ok
                 /\ markResult'.reason = "already"
                 /\ ledger' = ledger]_vars

\* the second of two mark(" Alice ") calls on one date was rejected
C2_Witness ==
    /\ markResult.op = "mark"
    /\ markResult.arg = <<" ","A","l","i","c","e"," ">>
    /\ markResult.reason = "already"
    /\ markResult.today = markResult.checked
    /\ ledger = <<Row(NameAlice, markResult.today, 0)>>
    /\ markResult.time = 1

\* C3: mark("") and mark of the sentinel in any letter case are rejected
\* as an unrecognised face and leave the ledger records unchanged.
C3_UnknownRejected ==
    [][\A n \in MarkInputs :
        (Mark(n) /\ (n = <<>> \/ Lower(n) = UNKNOWN)) =>
            /\ ~markResult'.ok
            /\ markResult'.reason = "unrecognised"
            /\ ledger' = ledger]_vars

\* mark("UNKNOWN") was rejected on a ledger that holds records
C3_Witness ==
    /\ markResult.op = "mark"
    /\ markResult.arg = <<"U","N","K","N","O","W","N">>
    /\ markResult.reason = "unrecognised"
    /\ ~markResult.ok
    /\ Len(ledger) >= 2

\* C4, as claimed: a successful mark(name) appends the one record
\* (name, date, time, "Present") to the unchanged previous rows, and the
\* confirmation carries the recorded time.
C4_AppendAsClaimed ==
    [][\A n \in MarkInputs :
        (Mark(n) /\ markResult'.ok) =>
            /\ ledger' = ledger \o <<Row(n, markResult'.today, markResult'.time)>>
            /\ markResult'.time = ledger'[Len(ledger')].Time]_vars

\* C4, amended: the appended record holds the name stripped of surrounding
\* whitespace, a date that was current during the call and a time-of-day
\* that was current at or after that; the rest as claimed.
C4_Append ==
    [][\A n \in MarkInputs :
        (Mark(n) /\ markResult'.ok) =>
            /\ Len(ledger') = Len(ledger) + 1
            /\ \A i \in DOMAIN ledger : ledger'[i] = ledger[i]
            /\ LET new == ledger'[Len(ledger')]
               IN /\ new.Name = Strip(n)
                  /\ new.Status = "Present"
                  /\ \E t1, t2 \in clock .. clock' :
                        /\ t1 <= t2
                        /\ new.Date = DayOf(t1)
                        /\ new.Time = TimeOf(t2)
                  /\ markResult'.time = new.Time
                  /\ markResult'.name = new.Name]_vars

\* mark(" Alice ") succeeded on a ledger that held records
C4_Witness ==
    /\ markResult.op = "mark"
    /\ markResult.ok
    /\ markResult.arg = <<" ","A","l","i","c","e"," ">>
    /\ Len(ledger) >= 2
    /\ ledger[Len(ledger)] = Row(NameAlice, markResult.today, markResult.time)

\* C5: clear(d) removes exactly the records dated d and leaves the others
\* in the relative order they had in the ledger.
C5_ClearKeepsOrder ==
    [][ClearToday =>
        ledger' = SelectSeq(ledger, LAMBDA r : r.Date # TodayStr(clock))]_vars

-----------------------------------------------------------------------------
(* Properties of the matcher *)

\* the reference descriptors of db: entry e, position k in the entry's list
Refs(db) ==
    UNION {{[e |-> e, k |-> k] : k \in DOMAIN db[e].encs} : e \in DOMAIN db}

\* the number of descriptors in the first n entries of db
RECURSIVE CountEncs(_, _)
CountEncs(db, n) == IF n = 0 THEN 0 ELSE CountEncs(db, n - 1) + Len(db[n].encs)

\* the index of reference r in the flattened database
FlatIndex(db, r) == CountEncs(db, r.e - 1) + r.k

\* the float64 distance of reference r of db to the query descriptor q
RefDist(db, r, q) ==
    FAbsDiff(FromDecimal(db[r.e].encs[r.k]), FromDecimal(q))

\* c tenths of a percent is round((1 - d) * 100, 1) of the float64 distance
\* d: the value of the expression in float64, which is a tenth nearest to
\* (1 - d) * 100
IsRounded(c, d) ==
    /\ c = Rint(FTimes(FTimes(FOneMinus(d), 100), 10))
    /\ 2 * Abs(c * DistScale - (DistScale - d.g) * 1000) <= DistScale

\* face is the match the claim C6 describes for query q
IsMatchFor(face, db, q, tolerance) ==
    IF Refs(db) = {}
    THEN face.name = NameUnknown /\ face.confidence = 0
    ELSE LET best == CHOOSE r \in Refs(db) : \A o \in Refs(db) :
                        \/ FLt(RefDist(db, r, q), RefDist(db, o, q))
                        \/ /\ FLe(RefDist(db, r, q), RefDist(db, o, q))
                           /\ FLe(RefDist(db, o, q), RefDist(db, r, q))
                           /\ FlatIndex(db, r) <= FlatIndex(db, o)
             m    == RefDist(db, best, q)
         IN IF FLe(m, FromDecimal(tolerance))
            THEN face.name = db[best.e].name /\ IsRounded(face.confidence, m)
            ELSE face.name = NameUnknown /\ face.confidence = 0

\* C6: each detected descriptor is assigned the owner of the nearest
\* reference descriptor (lowest flat index among ties) with confidence
\* round((1 - distance) * 100, 1) when that distance is <= tolerance, and
\* the unknown sentinel with confidence 0.0 otherwise, the distances and
\* the confidence being the float64 values.  Distance 0.3 at tolerance 0.5
\* gives the owner with 70.0 and distance 0.8 unknown; the distance of
\* 0.3015 to 0.3, in decimal halfway between two tenths of a percent, gives
\* 99.8; of the references 0.9 and 0.3, at float64 distances
\* 0.30000000000000004 and 0.3 of 0.6, the second is the nearest; and 0.9
\* is at 0.6000000000000001 of 0.3, not within the tolerance 0.6.
C6_NearestWithinTolerance ==
    (rq.called /\ rq.libOK /\ rq.db # <<>>) =>
        /\ Len(faces) = Len(rq.encodings)
        /\ \A i \in DOMAIN faces :
            /\ IsMatchFor(faces[i], rq.db, rq.encodings[i], rq.tolerance)
            /\ (rq.db = <<[name |-> NameAlice, encs |-> <<3000>>]>>
                  /\ rq.tolerance = 5000) =>
                 /\ rq.encodings[i] = 0 =>
                      faces[i].name = NameAlice /\ faces[i].confidence = 700
                 /\ rq.encodings[i] = 11000 =>
                      faces[i].name = NameUnknown /\ faces[i].confidence = 0
                 /\ rq.encodings[i] = 3015 =>
                      faces[i].name = NameAlice /\ faces[i].confidence = 998
            /\ (rq.db = <<[name |-> NameBob, encs |-> <<9000>>],
                          [name |-> NameAlice, encs |-> <<3000>>]>>
                  /\ rq.tolerance = 5000 /\ rq.encodings[i] = 6000) =>
                 faces[i].name = NameAlice /\ faces[i].confidence = 700
            /\ (rq.db = <<[name |-> NameAlice, encs |-> <<3000>>]>>
                  /\ rq.tolerance = 6000 /\ rq.encodings[i] = 9000) =>
                 faces[i].name = NameUnknown /\ faces[i].confidence = 0

\* a photo of two faces matched against two names that tie at distance
\* 0.0015...: the first face got the first name with 99.8, the second (at
\* 0.8) unknown
C6_Witness ==
    /\ rq.called /\ rq.libOK
    /\ rq.db = <<[name |-> NameAlice, encs |-> <<3000>>],
                 [name |-> NameBob, encs |-> <<3000>>]>>
    /\ rq.tolerance = 5000
    /\ rq.encodings = <<3015, 11000>>
    /\ faces[1].name = NameAlice /\ faces[1].confidence = 998
    /\ faces[2].name = NameUnknown /\ faces[2].confidence = 0

\* C7: every confidence recognize returns lies in [0, 100].
C7_ConfidenceInRange ==
    rq.called =>
        \A i \in DOMAIN faces :
            faces[i].confidence >= 0 /\ faces[i].confidence <= 1000

-----------------------------------------------------------------------------
(* Properties of the encoding store *)

FileAlice01 == <<"A","l","i","c","e","_","0","1",".","j","p","g">>
FileAlice02 == <<"a","l","i","c","e","_","0","2",".","J","P","G">>
FileBob     == <<"B","o","b",".","p","n","g">>

\* the supported photos of dir that yield at least one face and derive name
FacePhotos(dir, name) ==
    {f \in dir : /\ IsSupported(f.fname)
                 /\ DerivedName(f.fname) = name
                 /\ f.encs # <<>>}

\* the last operation ran the rebuild with the provider and it returned
RebuildReturned == encResult.rebuilt /\ ~encResult.raised /\ lib

\* C8: a rebuild of readable photos does not raise, also when photos yield
\* no face; in the database a rebuild returns, a name is a key exactly when
\* one of its photos yields a face, it holds one descriptor (the first face)
\* for each of its photos yielding a face, and so every key holds at least
\* one; Alice_01.jpg, alice_02.JPG and Bob.png give Alice: 2, Bob: 1.
C8_GroupedByName ==
    /\ (encResult.rebuilt /\ lib
          /\ \A f \in ListStudents(student_dir) : f.readable) => ~encResult.raised
    /\ RebuildReturned =>
        LET db    == encResult.db
            keys  == {db[i].name : i \in DOMAIN db}
            names == {DerivedName(f.fname) : f \in ListStudents(student_dir)}
        IN /\ \A i, j \in DOMAIN db : db[i].name = db[j].name => i = j
           /\ \A n \in names \cup keys :
                n \in keys <=> FacePhotos(student_dir, n) # {}
           /\ \A i \in DOMAIN db :
                /\ Len(db[i].encs) = Cardinality(FacePhotos(student_dir, db[i].name))
                /\ {db[i].encs[k] : k \in DOMAIN db[i].encs}
                     = {f.encs[1] : f \in FacePhotos(student_dir, db[i].name)}
                /\ Len(db[i].encs) >= 1
           /\ {f.fname : f \in student_dir} = {FileAlice01, FileAlice02, FileBob} =>
                /\ keys = {NameAlice, NameBob}
                /\ \A i \in DOMAIN db :
                     Len(db[i].encs) = IF db[i].name = NameAlice THEN 2 ELSE 1

\* a rebuild of Alice_01.jpg, alice_02.JPG and Bob.png returned Alice with
\* two descriptors and Bob with one
C8_Witness ==
    /\ encResult.op = "rebuild" /\ RebuildReturned
    /\ {f.fname : f \in student_dir} = {FileAlice01, FileAlice02, FileBob}
    /\ \E i, j \in DOMAIN encResult.db :
        /\ encResult.db[i].name = NameAlice /\ Len(encResult.db[i].encs) = 2
        /\ encResult.db[j].name = NameBob /\ Len(encResult.db[j].encs) = 1

\* C9: a rebuild with an unreadable reference image does not raise: it
\* persists the database it returns.
C9_UnreadableSkipped ==
    (encResult.op = "rebuild" /\ lib) =>
        /\ ~encResult.raised
        /\ encExists
        /\ encFile = encResult.db

\* Every operation of the encoding store leaves its own name in
\* encResult.op, so a step with encResult'.op = "load" is a load() and
\* encResult.op names the operation before it.

\* the databases a rebuild of directory dir can return
RebuildDBs(dir) == {r.db : r \in {o \in RebuildOutcomes(lib, dir) : ~o.raised}}

\* C10, as claimed: the load() that follows an upload that saved a photo, or
\* a delete, returns the database a rebuild of the photo directory produces.
C10_RegeneratedAsClaimed ==
    [][(encResult'.op = "load" /\ encResult.op \in {"upload", "delete"}
          /\ encResult.changed /\ ~encResult'.raised)
        => encResult'.db \in RebuildDBs(student_dir)]_vars

\* C10, amended: a delete removes the persisted database, so that the
\* load() that follows it runs the rebuild on the photo directory; an upload
\* leaves the persisted database as it is, and the load() that follows it
\* returns that database without a rebuild; no load() or upload changes a
\* persisted database.
C10_Regenerated ==
    [][/\ encResult'.op = "delete" => ~encExists'
       /\ (encResult'.op = "load" /\ encResult.op = "delete") =>
            /\ encResult'.rebuilt
            /\ ~encResult'.raised => /\ encResult'.db \in RebuildDBs(student_dir)
                                     /\ encExists' /\ encFile' = encResult'.db
       /\ encResult'.op = "upload" =>
            encExists' = encExists /\ encFile' = encFile
       /\ (encResult'.op = "load" /\ encResult.op = "upload" /\ encExists) =>
            /\ ~encResult'.rebuilt
            /\ encResult'.db = encFile /\ encFile' = encFile
       /\ (encExists /\ encResult'.op \in {"load", "upload"}) =>
            encExists' /\ encFile' = encFile]_vars

\* a load() after the delete of one of two encoded students rebuilt the
\* database, which holds the remaining student only
C10_Witness ==
    /\ encResult.op = "load" /\ encResult.after = "delete"
    /\ encResult.rebuilt /\ ~encResult.raised
    /\ {f.fname : f \in student_dir} = {FileBob}
    /\ encResult.db = <<[name |-> NameBob, encs |-> <<8000>>]>>
    /\ encFile = encResult.db

-----------------------------------------------------------------------------
(* The encoding store with a database persisted by an earlier run *)

\* a database an earlier run of the application persisted, while Bob's
\* photo was in the directory and the provider was installed
StaleDB == <<[name |-> NameBob, encs |-> <<8000>>]>>

\* the directories the store is started on
StoreDirs ==
    { {},
      {f \in FilePool : f.fname = FileAlice01},
      {f \in FilePool : f.fname \in {FileAlice01, FileAlice02}},
      {f \in FilePool : DerivedName(f.fname) = <<"B","a","d">>} }

\* the photos the matcher is called on in this specification
StoreQueries ==
    {r \in RecogInputs : r.tolerance = DEFAULT_TOLERANCE /\ Len(r.encodings) <= 1}

\* FACE_LIB_AVAILABLE is one module-level flag, read by
\* encode_faces_from_folder and by recognize_faces alike
InitStore ==
    /\ lib \in BOOLEAN
    /\ student_dir \in StoreDirs
    /\ encExists \in BOOLEAN
    /\ encFile = IF encExists THEN StaleDB ELSE <<>>
    /\ encResult = NoEnc
    /\ rq \in {r \in StoreQueries : r.libOK = lib} /\ faces = <<>>
    /\ clock = 0 /\ csvExists = FALSE /\ ledger = <<>> /\ markResult = NoResult
    /\ report = NoReport

NextStore ==
    \/ Rebuild
    \/ LoadEncodings
    \/ Recognize

SpecStore == InitStore /\ [][NextStore]_vars

-----------------------------------------------------------------------------
(* Properties of the encoding store, continued *)

\* this step is the encoding-store operation o (a call of recognize_faces
\* leaves the store and encResult as they are)
StoreStep(o) == encResult'.op = o /\ rq' = rq

\* C11, as claimed: every rebuild that returns leaves the database it
\* returned persisted, and the load() that follows it returns that database,
\* whatever was persisted before and whether or not the provider is
\* available.
C11_RebuildPersistsAsClaimed ==
    [][/\ (StoreStep("rebuild") /\ ~encResult'.raised) =>
            encExists' /\ encFile' = encResult'.db
       /\ (StoreStep("load") /\ encResult.op = "rebuild"
             /\ ~encResult.raised) =>
            ~encResult'.raised /\ encResult'.db = encResult.db]_vars

\* C11, amended: with the provider available, every rebuild that returns
\* leaves the database it returned persisted in place of any earlier one,
\* and the load() that follows it returns that database without a rebuild;
\* with the provider unavailable a rebuild returns the empty database and
\* leaves the persisted file as it was, and the load() that follows it
\* returns the earlier persisted database when there is one and the empty
\* database otherwise.
C11_RebuildPersists ==
    [][/\ (StoreStep("rebuild") /\ ~encResult'.raised /\ lib) =>
            encExists' /\ encFile' = encResult'.db
       /\ (StoreStep("load") /\ encResult.op = "rebuild"
             /\ ~encResult.raised /\ lib) =>
            /\ ~encResult'.raised /\ ~encResult'.rebuilt
            /\ encResult'.db = encResult.db
       /\ (StoreStep("rebuild") /\ ~lib) =>
            /\ ~encResult'.raised /\ encResult'.db = <<>>
            /\ encExists' = encExists /\ encFile' = encFile
       /\ (StoreStep("load") /\ encResult.op = "rebuild" /\ ~lib) =>
            /\ ~encResult'.raised
            /\ encResult'.db = IF encExists THEN encFile ELSE <<>>]_vars

\* a rebuild of Alice's two photos replaced the database persisted earlier,
\* and the load() after it returned the rebuilt database
C11_Witness ==
    /\ lib
    /\ encResult.op = "load" /\ encResult.after = "rebuild"
    /\ ~encResult.rebuilt /\ ~encResult.raised
    /\ {f.fname : f \in student_dir} = {FileAlice01, FileAlice02}
    /\ Len(encResult.db) = 1 /\ encResult.db[1].name = NameAlice
    /\ Len(encResult.db[1].encs) = 2
    /\ encFile = encResult.db /\ encFile # StaleDB

\* C12: a load() with a persisted database returns it unchanged without
\* running the rebuild, and raises nothing; a load() without one runs the
\* rebuild on the photo directory, returns what the rebuild returns and
\* leaves persisted what the rebuild persists, and raises only when the
\* rebuild raises on an unreadable photo.
C12_LoadOrRebuild ==
    [][StoreStep("load") =>
        /\ encExists =>
            /\ ~encResult'.rebuilt /\ ~encResult'.raised
            /\ encResult'.db = encFile
            /\ encExists' /\ encFile' = encFile
        /\ ~encExists =>
            /\ encResult'.rebuilt
            /\ \E r \in RebuildOutcomes(lib, student_dir) :
                /\ encResult'.raised = r.raised /\ encResult'.db = r.db
                /\ IF r.persist THEN encExists' /\ encFile' = r.db
                   ELSE ~encExists' /\ encFile' = encFile
            /\ encResult'.raised =>
                \E f \in ListStudents(student_dir) : ~f.readable]_vars

\* a load() found no persisted database, rebuilt it from Alice's photo and
\* returned it
C12_Witness ==
    /\ encResult.op = "load" /\ encResult.after = "none"
    /\ encResult.rebuilt /\ ~encResult.raised
    /\ encResult.db = <<[name |-> NameAlice, encs |-> <<3000>>]>>
    /\ encExists /\ encFile = encResult.db

\* C13: with the provider unavailable a rebuild returns the empty database
\* and recognize_faces the empty list, neither raising; recognize_faces
\* returns the empty list for every photo when the database passed to it is
\* empty.
C13_DegradesToEmpty ==
    /\ (encResult.rebuilt /\ ~lib) => (~encResult.raised /\ encResult.db = <<>>)
    /\ (rq.called /\ ~rq.libOK) => faces = <<>>
    /\ (rq.called /\ rq.db = <<>>) => faces = <<>>

\* without the provider, a rebuild of a directory holding an unreadable
\* photo returned the empty database, and recognize_faces returned nothing
\* for a photo with a face and a database with Alice in it
C13_Witness ==
    /\ ~lib
    /\ encResult.op = "rebuild" /\ encResult.db = <<>> /\ ~encResult.raised
    /\ \E f \in student_dir : IsSupported(f.fname) /\ ~f.readable
    /\ rq.called /\ rq.encodings # <<>> /\ rq.db # <<>> /\ faces = <<>>

-----------------------------------------------------------------------------
(* The ledger queries *)

\* _ensure_csv creates the file with its header when it is absent; the data
\* rows are as they were

\* load_attendance(filter_date)
Load(filter_date) ==
    /\ csvExists' = TRUE
    /\ report' = [NoReport EXCEPT !.op = "load", !.filter = filter_date,
                                  !.rows = load_attendance(ledger, filter_date)]
    /\ UNCHANGED <<clock, ledger, markResult, encVars, recogVars>>

\* get_stats()
Stats ==
    /\ csvExists' = TRUE
    /\ report' = [NoReport EXCEPT !.op = "stats",
                                  !.stats = get_stats(ledger, clock)]
    /\ UNCHANGED <<clock, ledger, markResult, encVars, recogVars>>

\* get_today_marked()
TodayMarked ==
    /\ csvExists' = TRUE
    /\ report' = [NoReport EXCEPT !.op = "today",
                                  !.names = get_today_marked(ledger, clock)]
    /\ UNCHANGED <<clock, ledger, markResult, encVars, recogVars>>

\* the rows an edit of CSV_PATH outside the application can leave: a row
\* removed, or a record of Bob added for the current day
ExternalEdits(rows, t) ==
    {SubSeq(rows, 1, i - 1) \o SubSeq(rows, i + 1, Len(rows)) : i \in DOMAIN rows}
    \cup (IF Len(rows) < MaxLedger
          THEN {Append(rows, Row(NameBob, TodayStr(t), 0))} ELSE {})

ExternalEdit ==
    /\ \E rows \in ExternalEdits(ledger, clock) : ledger' = rows
    /\ csvExists' = TRUE
    /\ markResult' = [NoResult EXCEPT !.op = "edit"]
    /\ report' = NoReport
    /\ UNCHANGED <<clock, encVars, recogVars>>

\* the names mark_attendance is called with between the queries
QueryMarkArgs == <<NameAlice, <<" "," ">>>>

\* the filter_date arguments: None and the dates of the clock's range
FilterDates == {NoFilter} \cup {DayOf(t) : t \in 0 .. MaxTick}

InitQuery == InitLedger

NextQuery ==
    \/ \E i \in DOMAIN QueryMarkArgs : Mark(QueryMarkArgs[i])
    \/ ClearToday
    \/ Tick
    \/ ExternalEdit
    \/ \E d \in FilterDates : Load(d)
    \/ Stats
    \/ TodayMarked

SpecQuery == InitQuery /\ [][NextQuery]_vars

-----------------------------------------------------------------------------
(* Properties of the ledger queries *)

\* the number of rows of rows equal to r
CountRow(rows, r) == Cardinality({i \in DOMAIN rows : rows[i] = r})

\* got holds the rows of want, each as many times, in some order
SameRows(got, want) ==
    /\ Len(got) = Len(want)
    /\ \A i \in DOMAIN want : CountRow(got, want[i]) = CountRow(want, want[i])

\* rows is in descending order of (Date, Time)
IsDescending(rows) ==
    \A i, j \in DOMAIN rows :
        i < j => \/ rows[i].Date > rows[j].Date
                 \/ rows[i].Date = rows[j].Date /\ rows[i].Time >= rows[j].Time

\* C14: load_attendance(filter_date) returns exactly the records of the
\* ledger dated filter_date, and every record of the ledger without a
\* filter; the rows returned are in descending order of (date, time), and
\* the call leaves the ledger as it was.
C14_LoadFiltersAndSorts ==
    [][report'.op = "load" =>
        LET want == IF report'.filter = NoFilter THEN ledger
                    ELSE SelectSeq(ledger, LAMBDA r : r.Date = report'.filter)
        IN /\ SameRows(report'.rows, want)
           /\ IsDescending(report'.rows)
           /\ ledger' = ledger]_vars

\* C15: get_today_marked() returns exactly the set of the names that have a
\* record dated today in the ledger as it is when the call is made,
\* whatever marks, clears and external edits came before, and leaves the
\* ledger as it was.
C15_TodayMarkedIsCurrent ==
    [][report'.op = "today" =>
        /\ \A n \in report'.names :
            \E i \in DOMAIN ledger :
                ledger[i].Name = n /\ ledger[i].Date = DayOf(clock)
        /\ \A i \in DOMAIN ledger :
            ledger[i].Date = DayOf(clock) => ledger[i].Name \in report'.names
        /\ ledger' = ledger]_vars

\* get_today_marked() called after an external edit returned Alice, marked
\* through the application, and Bob, added by the edit, and not a name
\* recorded on the day before
C15_Witness ==
    /\ report.op = "today" /\ markResult.op = "edit"
    /\ report.names = {NameAlice, NameBob}
    /\ DayOf(clock) = 1
    /\ \E i \in DOMAIN ledger : ledger[i].Date = 0 /\ ledger[i].Name = <<>>

\* C16: get_stats() returns the number of records, of distinct names, of
\* distinct dates and of records dated today of the current ledger (all 0
\* when it is empty or absent), and leaves the ledger as it was.
C16_StatsAggregate ==
    [][report'.op = "stats" =>
        /\ report'.stats.total_records = Len(ledger)
        /\ report'.stats.unique_students =
              Cardinality({ledger[i].Name : i \in DOMAIN ledger})
        /\ report'.stats.unique_dates =
              Cardinality({ledger[i].Date : i \in DOMAIN ledger})
        /\ report'.stats.today_count =
              Cardinality({i \in DOMAIN ledger : ledger[i].Date = DayOf(clock)})
        /\ ledger' = ledger]_vars

-----------------------------------------------------------------------------
(* Properties of mark_attendance, continued *)

\* C17: in a mark_attendance call that passes the guard, the date of the
\* duplicate check is the date written into the appended record, also when
\* the clock passes midnight within the call; hence a record of (name, d)
\* is appended only when the ledger held no record of (name, d) at the
\* check.
C17_CheckDateIsWrittenDate ==
    [][\A n \in MarkInputs :
        (Mark(n) /\ markResult'.reason \in {"marked", "already"}) =>
            /\ markResult'.checked = markResult'.today
            /\ ledger' # ledger =>
                ~HasRecord(ledger, markResult'.name, markResult'.today)]_vars

\* C18: every record of the ledger has a name that is not empty, has no
\* leading or trailing whitespace and is not the unknown sentinel in any
\* letter case.
C18_RecordedNamesAreValid ==
    \A i \in DOMAIN ledger :
        /\ ledger[i].Name # <<>>
        /\ Strip(ledger[i].Name) = ledger[i].Name
        /\ Lower(ledger[i].Name) # UNKNOWN

-----------------------------------------------------------------------------
(* page_modules/mark_attendance.py: the Mark Attendance page *)

\* the for loop over not_yet: mark_attendance called for each name of names
\* in turn, the first call made at or after tick t; each outcome holds the
\* rows left, the tick of the last clock read and the results returned
RECURSIVE MarkAll(_, _, _)
MarkAll(names, rows, t) ==
    IF names = <<>> THEN {[rows |-> rows, clock |-> t, results |-> <<>>]}
    ELSE UNION {UNION {
            {[rows |-> r.rows, clock |-> r.clock,
              results |-> <<o.res>> \o r.results]
             : r \in MarkAll(Tail(names), o.rows, o.clock)}
            : o \in MarkCall(Head(names), rows, t1)}
         : t1 \in ReadAfter(t)}

\* what load_encodings() can do in the current state
LoadOutcomes ==
    IF encExists
    THEN {[raised |-> FALSE, db |-> encFile, rebuilt |-> FALSE,
           persist |-> FALSE]}
    ELSE {[raised |-> r.raised, db |-> r.db, rebuilt |-> TRUE,
           persist |-> r.persist] : r \in RebuildOutcomes(lib, student_dir)}

\* render() run with a captured photo in which face_recognition detects
\* the given descriptors, and "Mark Attendance" pressed when the button is
\* shown.  The page returns early without the library and on an empty
\* database; report holds today_marked as the run read it.
PressMarkAttendance(encodings) ==
    /\ lib
    /\ UNCHANGED <<student_dir, lib>>
    /\ \E ld \in LoadOutcomes :
        /\ encResult' = [op |-> "load", raised |-> ld.raised, db |-> ld.db,
                         rebuilt |-> ld.rebuilt, changed |-> FALSE,
                         after |-> encResult.op]
        /\ IF ld.persist THEN encExists' = TRUE /\ encFile' = ld.db
           ELSE UNCHANGED <<encExists, encFile>>
        /\ IF ld.raised \/ ld.db = <<>>
           THEN UNCHANGED <<ledgerVars, recogVars>>
           ELSE LET today_marked == get_today_marked(ledger, clock)
                    locations  == [i \in DOMAIN encodings |-> LocationOf(i)]
                    fs         == recognize_faces(lib, encodings, locations,
                                                  ld.db, DEFAULT_TOLERANCE)
                    recognised == SelectSeq(fs, LAMBDA f : f.name # NameUnknown)
                    not_yet    == SelectSeq(recognised,
                                            LAMBDA f : f.name \notin today_marked)
                    shown      == [NoReport EXCEPT !.op = "page",
                                                   !.names = today_marked]
                IN /\ csvExists' = TRUE
                   /\ rq' = [libOK |-> lib, db |-> ld.db, encodings |-> encodings,
                             locations |-> locations,
                             tolerance |-> DEFAULT_TOLERANCE, called |-> TRUE]
                   /\ faces' = fs
                   /\ report' = shown
                   /\ IF not_yet = <<>>
                      THEN UNCHANGED <<clock, ledger, markResult>>
                      ELSE /\ Len(ledger) + Len(not_yet) <= MaxLedger
                           /\ \E o \in MarkAll([i \in DOMAIN not_yet |->
                                                   not_yet[i].name],
                                               ledger, clock) :
                                /\ ledger' = o.rows
                                /\ clock' = o.clock
                                /\ markResult' = o.results[Len(o.results)]

\* the descriptors detected in the photos captured on the page: two of
\* Alice, one of Bob, one of nobody enrolled
PageEncs == {3000, 3002, 8000, 15000}

\* the photos: up to MaxFaces faces each
PagePhotos == UNION {[1 .. n -> PageEncs] : n \in 0 .. MaxFaces}

\* the page is opened with the photos of Alice and Bob in STUDENT_DIR, encoded
\* or not yet
InitPage ==
    /\ InitLedgerPart
    /\ lib = TRUE
    /\ student_dir = {f \in FilePool : f.fname \in {FileAlice01, FileBob}}
    /\ encExists \in BOOLEAN
    /\ encFile = IF encExists
                 THEN <<[name |-> NameAlice, encs |-> <<3000>>],
                        [name |-> NameBob, encs |-> <<8000>>]>>
                 ELSE <<>>
    /\ encResult = NoEnc
    /\ rq = NoQuery /\ faces = <<>>

NextPage ==
    \/ \E e \in PagePhotos : PressMarkAttendance(e)
    \/ ClearToday
    \/ Tick

SpecPage == InitPage /\ [][NextPage]_vars

\* C19: one press of "Mark Attendance" appends at most one record for each
\* distinct recognised name, also when several faces of the photo are
\* assigned one name; every record it appends is of a name assigned to a
\* face of the photo that is not the unknown sentinel and was not in
\* today_marked() when the page was rendered.
C19_OneRecordPerRecognisedName ==
    [][report'.op = "page" =>
        LET new == SubSeq(ledger', Len(ledger) + 1, Len(ledger'))
        IN /\ SubSeq(ledger', 1, Len(ledger)) = ledger
           /\ \A i, j \in DOMAIN new : new[i].Name = new[j].Name => i = j
           /\ \A i \in DOMAIN new :
                /\ \E k \in DOMAIN faces' : faces'[k].name = new[i].Name
                /\ new[i].Name # NameUnknown
                /\ new[i].Name \notin report'.names]_vars

-----------------------------------------------------------------------------
(* Properties of the Manage Students page, continued *)

\* the names derived from the photos of dir
DerivedNames(dir) == {DerivedName(f.fname) : f \in ListStudents(dir)}

\* C20: whenever a persisted database exists, every name in it is the
\* derived name of a photo now in the reference directory, and so is every
\* name of a database a load() returns: a delete removes the persisted
\* database, so a person whose photos were all deleted is not returned.
C20_PersistedNamesHavePhotos ==
    /\ encExists =>
        \A i \in DOMAIN encFile : encFile[i].name \in DerivedNames(student_dir)
    /\ (encResult.op = "load" /\ ~encResult.raised) =>
        \A i \in DOMAIN encResult.db :
            encResult.db[i].name \in DerivedNames(student_dir)

\* a photo was deleted while Alice's remained, and the load() after the
\* delete rebuilt and persisted a database of Alice only
C20_Witness ==
    /\ lib
    /\ encResult.op = "load" /\ encResult.after = "delete"
    /\ encResult.rebuilt /\ ~encResult.raised
    /\ {f.fname : f \in student_dir} = {FileAlice01}
    /\ encExists
    /\ encFile = <<[name |-> NameAlice, encs |-> <<3000>>]>>
    /\ encResult.db = encFile

====
